---- MODULE Spec2Model ----
(***************************************************************************)
(* Model of reformat.py: the exon lookup (fetch_exon_data), the exon       *)
(* classifier (find_exon), the threshold (calculate_exon_threshold) and    *)
(* the batch loop (read_tsv_files_in_directory_and_write_output).          *)
(*                                                                         *)
(* Text is modelled as sequences of one-character strings, a csv row as a  *)
(* sequence of such fields, the output file as the sequence of its lines   *)
(* (each without its trailing newline).  The directory listing, the rows   *)
(* of each file and the answers of the remote service are inputs, drawn    *)
(* when the code reads them.                                               *)
(***************************************************************************)
EXTENDS Integers, Sequences, FiniteSets, TLC

VARIABLES
    pc,             \* position in read_tsv_files_in_directory_and_write_output
    files,          \* entries of os.listdir taken so far, each with how far it got
    gene_name,      \* gene_name of the current file
    exons,          \* exons fetched at line 90 for the current file
    exon_threshold, \* exon_threshold of the current file
    count,          \* count of rows kept in the current file
    row,            \* the row the current file's csv reader handed out last, and what became of it
    nrows,          \* rows the csv readers have handed out in this run
    output,         \* lines written to output_file
    printed,        \* messages printed (skip notices, the summary, the error)
    pbar,           \* number of pbar.update(1) calls
    resp,           \* the last response requests.get returned for the current file
    call,           \* unit harness: the pending call of a pure function
    ret             \* unit harness: what the call returned

vars == <<pc, files, gene_name, exons, exon_threshold, count, row, nrows,
          output, printed, pbar, resp, call, ret>>

runvars == <<pc, files, gene_name, exons, exon_threshold, count, row, nrows,
             output, printed, pbar, resp>>

unitvars == <<call, ret>>

(***************************************************************************)
(* Bounds of the model.                                                    *)
(***************************************************************************)
MaxFiles == 2
MaxRows == 6
MaxExons == 3
MaxCoord == 2
MaxExonCount == 12

(***************************************************************************)
(* Program constants.                                                      *)
(***************************************************************************)
KeepLimit == 5
SmallGene == 5
LabelCut == 3
CoordIndex == 3
LabelIndex == 2

(***************************************************************************)
(* Text helpers.                                                           *)
(***************************************************************************)
Digits == <<"0", "1", "2", "3", "4", "5", "6", "7", "8", "9">>

IsDigit(c) == \E i \in 1..Len(Digits) : Digits[i] = c

DigitVal(c) == (CHOOSE i \in 1..Len(Digits) : Digits[i] = c) - 1

\* str.endswith
EndsWith(s, suffix) ==
    /\ Len(s) >= Len(suffix)
    /\ SubSeq(s, Len(s) - Len(suffix) + 1, Len(s)) = suffix

\* os.path.splitext(name)[0]: the name up to its last dot, unless that dot is
\* among the leading dots of the name.
SplitExtRoot(s) ==
    LET dots == {i \in 1..Len(s) : s[i] = "."}
        lead == {i \in 1..Len(s) : \A j \in 1..i : s[j] = "."}
    IN  IF dots \ lead = {} THEN s
        ELSE LET last == CHOOSE i \in dots : \A j \in dots : j <= i
             IN  SubSeq(s, 1, last - 1)

\* str.split(':'): the parts between the colons
RECURSIVE SplitColon(_)
SplitColon(s) ==
    LET colons == {i \in 1..Len(s) : s[i] = ":"}
    IN  IF colons = {} THEN <<s>>
        ELSE LET first == CHOOSE i \in colons : \A j \in colons : i <= j
             IN  <<SubSeq(s, 1, first - 1)>> \o SplitColon(SubSeq(s, first + 1, Len(s)))

\* str.replace('chr', ''): every non-overlapping occurrence removed, left to right
RECURSIVE RemoveChr(_)
RemoveChr(s) ==
    IF s = <<>> THEN <<>>
    ELSE IF Len(s) >= 3 /\ SubSeq(s, 1, 3) = <<"c", "h", "r">>
         THEN RemoveChr(SubSeq(s, 4, Len(s)))
         ELSE <<Head(s)>> \o RemoveChr(Tail(s))

\* int(text) of a text of decimal digits; anything else raises ValueError
IsIntText(s) == s # <<>> /\ \A i \in 1..Len(s) : IsDigit(s[i])

RECURSIVE IntOf(_)
IntOf(s) ==
    IF s = <<>> THEN 0
    ELSE 10 * IntOf(SubSeq(s, 1, Len(s) - 1)) + DigitVal(s[Len(s)])

\* '=' * n
Underline(n) == [i \in 1..n |-> "="]

(***************************************************************************)
(* The remote service's answers.                                           *)
(***************************************************************************)
Exon(s, e) == [start |-> s, end |-> e]

Answer(net, status, error, transcripts) ==
    [net |-> net, status |-> status, error |-> error, Transcript |-> transcripts]

\* no request made yet for the file
NoResponse == Answer("none", 0, FALSE, <<>>)

Responses ==
    { \* the gene, two transcripts
      Answer("ok", 200, FALSE, << [Exon |-> <<Exon(10, 20), Exon(25, 30)>>],
                                  [Exon |-> <<Exon(15, 40)>>] >>),
      \* an error payload with a success status
      Answer("ok", 200, TRUE, <<>>),
      \* a body without transcripts
      Answer("ok", 200, FALSE, <<>>),
      \* unknown symbol: the service answers 400 with an error payload
      Answer("ok", 400, TRUE, <<>>),
      \* the service is down
      Answer("ok", 500, FALSE, <<>>),
      \* no connection: requests.get raises
      Answer("down", 0, FALSE, <<>>) }

(***************************************************************************)
(* fetch_exon_data                                                         *)
(***************************************************************************)
Raised(exc) == [kind |-> "raise", exc |-> exc, list |-> <<>>]
None == [kind |-> "none", exc |-> "", list |-> <<>>]
List(l) == [kind |-> "list", exc |-> "", list |-> l]

\* response.ok: raise_for_status raises for the 4xx and 5xx statuses
ResponseOk(response) == response.status < 400 \/ response.status >= 600

RECURSIVE FlattenExons(_)
FlattenExons(transcripts) ==
    IF transcripts = <<>> THEN <<>>
    ELSE [i \in 1..Len(Head(transcripts).Exon) |->
             Exon(Head(transcripts).Exon[i].start, Head(transcripts).Exon[i].end)]
         \o FlattenExons(Tail(transcripts))

fetch_exon_data(response) ==
    IF response.net # "ok" THEN Raised("ConnectionError")
    ELSE IF ~ResponseOk(response) THEN Raised("HTTPError")
    ELSE IF response.error THEN None
    ELSE List(FlattenExons(response.Transcript))

\* mutant: only None counts as no exons
NotExons_NoneOnly(fetched) == fetched.kind = "none"

\* `not exons`: None and the empty list
NotExons(fetched) == fetched.kind = "none" \/ fetched.list = <<>>

(***************************************************************************)
(* find_exon                                                               *)
(***************************************************************************)
\* the result of find_exon: an exon number, None, or the exception of the fetch
Found(n) == [kind |-> "exon", exc |-> "", n |-> n]
NotFound == [kind |-> "none", exc |-> "", n |-> 0]
FindRaised(exc) == [kind |-> "raise", exc |-> exc, n |-> 0]

\* mutant: the end of an interval is excluded
RECURSIVE FirstContaining_OpenEnd(_, _, _)
FirstContaining_OpenEnd(list, coordinate, index) ==
    IF index > Len(list) THEN NotFound
    ELSE IF list[index].start <= coordinate /\ coordinate < list[index].end
         THEN Found(index)
         ELSE FirstContaining_OpenEnd(list, coordinate, index + 1)

\* the loop of lines 49-53, from position index on
RECURSIVE FirstContaining(_, _, _)
FirstContaining(list, coordinate, index) ==
    IF index > Len(list) THEN NotFound
    ELSE IF list[index].start <= coordinate /\ coordinate <= list[index].end
         THEN Found(index)
         ELSE FirstContaining(list, coordinate, index + 1)

\* mutant: only exons of chromosome 1 are looked at
find_exon_OnChromosome(chromosome, coordinate, response) ==
    LET fetched == fetch_exon_data(response)
    IN  IF fetched.kind = "raise" THEN FindRaised(fetched.exc)
        ELSE IF NotExons(fetched) \/ chromosome # <<"1">> THEN NotFound
        ELSE FirstContaining(fetched.list, coordinate, 1)

find_exon(chromosome, coordinate, response) ==
    LET fetched == fetch_exon_data(response)
    IN  IF fetched.kind = "raise" THEN FindRaised(fetched.exc)
        ELSE IF NotExons(fetched) THEN NotFound
        ELSE FirstContaining(fetched.list, coordinate, 1)

(***************************************************************************)
(* calculate_exon_threshold                                                *)
(***************************************************************************)
\* math.ceil(n / 2.0) and math.floor(n / 2.0) of an integer n >= 0
CeilHalf(n) == (n \div 2) + (n % 2)
FloorHalf(n) == n \div 2

\* mutant: a gene of SmallGene exons is rounded down
calculate_exon_threshold_Strict(exon_count) ==
    IF exon_count < SmallGene THEN CeilHalf(exon_count) ELSE FloorHalf(exon_count)

calculate_exon_threshold(exon_count) ==
    IF exon_count <= SmallGene THEN CeilHalf(exon_count) ELSE FloorHalf(exon_count)

(***************************************************************************)
(* The inputs of a run: directory entries and csv rows.                    *)
(***************************************************************************)
TsvSuffix == <<".", "t", "s", "v">>

FileNames ==
    { <<"a">> \o TsvSuffix,
      <<"r", "x">> \o TsvSuffix,
      <<"n", ".", "t", "x", "t">> }

GuideId == <<"g">>

RowSet ==
    { \* position 16 lies in the first and the third exon
      <<GuideId, <<"A", "C", "G", "T", "C", "C", "C">>,
        <<"c", "h", "r", "1", ":", "1", "6">>, <<"5", "5">>>>,
      \* position 26 lies in the second exon
      <<GuideId, <<"A", "T">>, <<"2", ":", "2", "6">>, <<"7">>>>,
      \* position 35 lies in the third exon only
      <<GuideId, <<"G", "G", "C", "C">>, <<"c", "h", "r", "1", ":", "3", "5">>, <<"9">>>>,
      \* an empty row
      <<>>,
      \* a coordinate without its colon
      <<GuideId, <<"A", "T">>, <<"c", "h", "r", "1", "1", "6">>, <<"7">>>> }

(***************************************************************************)
(* One row of the scan, lines 117-127.                                     *)
(***************************************************************************)
Parsed(exc, chromosome, position, second_cell) ==
    [exc |-> exc, chromosome |-> chromosome, position |-> position,
     second_cell |-> second_cell]

\* mutant: a coordinate without a colon is read as position 0
ParseRow_Lenient(r) ==
    IF Len(r) < CoordIndex THEN Parsed("IndexError", <<>>, 0, <<>>)
    ELSE LET parts == SplitColon(r[CoordIndex])
         IN  IF Len(parts) # 2 THEN Parsed("", <<>>, 0, r[LabelIndex])
             ELSE IF ~IsIntText(parts[2]) THEN Parsed("ValueError", <<>>, 0, <<>>)
             ELSE Parsed("", RemoveChr(parts[1]), IntOf(parts[2]), r[LabelIndex])

\* lines 117-123; exc is the exception raised, "" when none
ParseRow(r) ==
    IF Len(r) < CoordIndex THEN Parsed("IndexError", <<>>, 0, <<>>)
    ELSE LET parts == SplitColon(r[CoordIndex])
         IN  IF Len(parts) # 2 THEN Parsed("ValueError", <<>>, 0, <<>>)
             ELSE IF ~IsIntText(parts[2]) THEN Parsed("ValueError", <<>>, 0, <<>>)
             ELSE Parsed("", RemoveChr(parts[1]), IntOf(parts[2]),
                         IF Len(r[LabelIndex]) > LabelCut
                         THEN SubSeq(r[LabelIndex], 1, Len(r[LabelIndex]) - LabelCut)
                         ELSE r[LabelIndex])

\* lines 117-126: the exon number of a row, None, or the exception raised
RowExon(r, response) ==
    LET p == ParseRow(r)
    IN  IF p.exc # "" THEN FindRaised(p.exc)
        ELSE find_exon(p.chromosome, p.position, response)

\* line 127
Keeps(result, threshold) == result.kind = "exon" /\ result.n <= threshold

\* mutant: the scan stops one kept row late
ShouldBreak_Late(c) == c > KeepLimit

\* line 113
ShouldBreak(c) == c >= KeepLimit

\* lines 128-132, without the newline
GuideLine(second_cell, r, exon_number) ==
    <<"[">> \o second_cell \o <<"]  Efficiency Score: [">>
    \o r[Len(r)] \o <<"]  ", "Exon number: ", ToString(exon_number)>>

(***************************************************************************)
(* read_tsv_files_in_directory_and_write_output                            *)
(***************************************************************************)
Message(kind, exc, gene) == [kind |-> kind, exc |-> exc, gene |-> gene]

Entry(name, stage) == [name |-> name, stage |-> stage]

Logged(r, read, result) == [row |-> r, read |-> read, result |-> result]

\* the stage of the file the loop is at
SetStage(stage) == [files EXCEPT ![Len(files)].stage = stage]

\* no row read yet from the file
NoRow == Logged(<<>>, "none", NotFound)

Init ==
    /\ pc = "start"
    /\ files = <<>>
    /\ gene_name = <<>>
    /\ exons = None
    /\ exon_threshold = 0
    /\ count = 0
    /\ row = NoRow
    /\ nrows = 0
    /\ output = <<>>
    /\ printed = <<>>
    /\ pbar = 0
    /\ resp = NoResponse
    /\ call = [fn |-> "none", n |-> 0, list |-> <<>>, coordinate |-> 0]
    /\ ret = [done |-> FALSE, n |-> 0, result |-> NotFound]

\* mutant: the fault is reported and the loop goes on with the next file
Fail_Isolated(exc) ==
    /\ pc' = "loop"
    /\ printed' = Append(printed, Message("error", exc, <<>>))

\* lines 137-138: the exception ends the run with one message
Fail(exc) ==
    /\ pc' = "error"
    /\ printed' = Append(printed, Message("error", exc, <<>>))

\* lines 74-79: the directory is listed and the output file opened
Start ==
    /\ pc = "start"
    /\ \E ok \in BOOLEAN :
          IF ok THEN pc' = "loop" /\ printed' = printed
          ELSE Fail("OSError")
    /\ output' = <<>>
    /\ UNCHANGED <<files, gene_name, exons, exon_threshold, count, row, nrows, pbar, resp>>
    /\ UNCHANGED unitvars

\* lines 81-87: the next directory entry
TakeFile(name) ==
    /\ pc = "loop"
    /\ Len(files) < MaxFiles
    /\ \A i \in 1..Len(files) : files[i].name # name
    /\ IF EndsWith(name, TsvSuffix)
       THEN /\ files' = Append(files, Entry(name, "fetch"))
            /\ gene_name' = SplitExtRoot(name)
            /\ pc' = "fetch"
       ELSE /\ files' = Append(files, Entry(name, "not_tsv"))
            /\ UNCHANGED <<gene_name, pc>>
    /\ row' = NoRow
    /\ resp' = NoResponse
    /\ UNCHANGED <<exons, exon_threshold, count, nrows, output, printed, pbar>>
    /\ UNCHANGED unitvars

\* line 136: the listing is exhausted
Finish ==
    /\ pc = "loop"
    /\ pc' = "done"
    /\ printed' = Append(printed, Message("summary", "", <<>>))
    /\ UNCHANGED <<files, gene_name, exons, exon_threshold, count, row, nrows, output, pbar, resp>>
    /\ UNCHANGED unitvars

\* lines 90-97: the exons of the gene and its threshold
FetchExons(response) ==
    /\ pc = "fetch"
    /\ resp' = response
    /\ LET fetched == fetch_exon_data(response)
       IN  IF fetched.kind = "raise"
           THEN /\ Fail(fetched.exc)
                /\ files' = SetStage("fault_fetch")
                /\ UNCHANGED <<exons, exon_threshold, pbar>>
           ELSE IF NotExons(fetched)
           THEN /\ exons' = fetched
                /\ printed' = Append(printed, Message("skip", "", gene_name))
                /\ pbar' = pbar + 1
                /\ pc' = "loop"
                /\ files' = SetStage("no_exons")
                /\ UNCHANGED exon_threshold
           ELSE /\ exons' = fetched
                /\ exon_threshold' = calculate_exon_threshold(Len(fetched.list))
                /\ pc' = "open"
                /\ files' = SetStage("found")
                /\ UNCHANGED <<printed, pbar>>
    /\ UNCHANGED <<gene_name, count, row, nrows, output>>
    /\ UNCHANGED unitvars

\* lines 100-111: the file is opened, its first row discarded, the header written
OpenTsv(readable) ==
    /\ pc = "open"
    /\ IF readable
       THEN /\ output' = output \o <<gene_name, Underline(Len(gene_name))>>
            /\ count' = 0
            /\ pc' = "scan"
            /\ files' = SetStage("scan")
            /\ UNCHANGED printed
       ELSE /\ Fail("IOError")
            /\ files' = SetStage("fault_open")
            /\ UNCHANGED <<output, count>>
    /\ UNCHANGED <<gene_name, exons, exon_threshold, row, nrows, pbar, resp>>
    /\ UNCHANGED unitvars

\* mutant: the separator is written only after a kept row
CloseBlock_IfKept ==
    /\ output' = IF count > 0 THEN Append(output, <<>>) ELSE output
    /\ pbar' = pbar + 1
    /\ pc' = "loop"
    /\ files' = SetStage("closed")

\* lines 134-135: the separator after the rows of a file
CloseBlock ==
    /\ output' = Append(output, <<>>)
    /\ pbar' = pbar + 1
    /\ pc' = "loop"
    /\ files' = SetStage("closed")

\* line 112: the reader has no more rows
ScanEnd ==
    /\ pc = "scan"
    /\ CloseBlock
    /\ UNCHANGED <<gene_name, exons, exon_threshold, count, row, nrows, printed, resp>>
    /\ UNCHANGED unitvars

\* lines 112-133: the reader hands out one more row
ScanRow(r) ==
    /\ pc = "scan"
    /\ nrows < MaxRows
    /\ nrows' = nrows + 1
    /\ IF ShouldBreak(count)
       THEN /\ row' = Logged(r, "break", NotFound)
            /\ CloseBlock
            /\ UNCHANGED <<count, printed, resp>>
       ELSE IF r = <<>>
       THEN /\ row' = Logged(r, "empty", NotFound)
            /\ UNCHANGED <<count, output, printed, pbar, pc, files, resp>>
       ELSE LET p == ParseRow(r)
            IN  IF p.exc # ""
                THEN /\ row' = Logged(r, "parsed", FindRaised(p.exc))
                     /\ Fail(p.exc)
                     /\ files' = SetStage("fault_scan")
                     /\ UNCHANGED <<count, output, pbar, resp>>
                ELSE \E response \in Responses :
                        LET result == find_exon(p.chromosome, p.position, response)
                        IN  /\ row' = Logged(r, "parsed", result)
                            /\ resp' = response
                            /\ IF result.kind = "raise"
                               THEN /\ Fail(result.exc)
                                    /\ files' = SetStage("fault_scan")
                                    /\ UNCHANGED <<count, output, pbar>>
                               ELSE IF Keeps(result, exon_threshold)
                               THEN /\ output' = Append(output, GuideLine(p.second_cell, r, result.n))
                                    /\ count' = count + 1
                                    /\ UNCHANGED <<printed, pbar, pc, files>>
                               ELSE UNCHANGED <<count, output, printed, pbar, pc, files>>
    /\ UNCHANGED <<gene_name, exons, exon_threshold>>
    /\ UNCHANGED unitvars

Next ==
    \/ Start
    \/ \E name \in FileNames : TakeFile(name)
    \/ Finish
    \/ \E response \in Responses : FetchExons(response)
    \/ \E readable \in BOOLEAN : OpenTsv(readable)
    \/ ScanEnd
    \/ \E r \in RowSet : ScanRow(r)

Spec == Init /\ [][Next]_vars

(***************************************************************************)
(* The pure functions on their own: a call is drawn, then applied.         *)
(***************************************************************************)
Call(fn, n, list, coordinate) ==
    [fn |-> fn, n |-> n, list |-> list, coordinate |-> coordinate]

Returned(done, n, result) == [done |-> done, n |-> n, result |-> result]

Intervals == {Exon(s, e) : s \in 1..MaxCoord, e \in 1..MaxCoord}

ExonLists == UNION {[1..k -> Intervals] : k \in 0..MaxExons}

UnitCalls ==
    {Call("calculate_exon_threshold", n, <<>>, 0) : n \in 0..MaxExonCount}
    \cup {Call("find_exon", 0, l, c) : l \in ExonLists, c \in 0..(MaxCoord + 1)}

\* the service's answer that carries the exons of list, one transcript
AnswerWith(list) == Answer("ok", 200, FALSE, <<[Exon |-> list]>>)

InitUnit ==
    /\ pc = "start"
    /\ files = <<>>
    /\ gene_name = <<>>
    /\ exons = None
    /\ exon_threshold = 0
    /\ count = 0
    /\ row = NoRow
    /\ nrows = 0
    /\ output = <<>>
    /\ printed = <<>>
    /\ pbar = 0
    /\ resp = NoResponse
    /\ call \in UnitCalls
    /\ ret = Returned(FALSE, 0, NotFound)

CallThreshold ==
    /\ call.fn = "calculate_exon_threshold"
    /\ ~ret.done
    /\ ret' = Returned(TRUE, calculate_exon_threshold(call.n), NotFound)
    /\ UNCHANGED call
    /\ UNCHANGED runvars

CallFindExon ==
    /\ call.fn = "find_exon"
    /\ ~ret.done
    /\ ret' = Returned(TRUE, 0, find_exon(<<>>, call.coordinate, AnswerWith(call.list)))
    /\ UNCHANGED call
    /\ UNCHANGED runvars

NextUnit == CallThreshold \/ CallFindExon

SpecUnit == InitUnit /\ [][NextUnit]_vars

(***************************************************************************)
(* Reading the state: the blocks of the output, the messages, the files.   *)
(***************************************************************************)
Last(q) == q[Len(q)]

IsGuide(line) == line # <<>> /\ line[1] = "["

\* the number of guide lines of out from index i on
RECURSIVE GuideRun(_, _)
GuideRun(out, i) ==
    IF i <= Len(out) /\ IsGuide(out[i]) THEN 1 + GuideRun(out, i + 1) ELSE 0

Block(name, guides, closed, ok) ==
    [name |-> name, guides |-> guides, closed |-> closed, ok |-> ok]

\* the output read as blocks: a name line, its underline, guide lines and,
\* when the block is closed, one blank line; ok is FALSE where it does not read so
RECURSIVE Blocks(_)
Blocks(out) ==
    IF out = <<>> THEN <<>>
    ELSE IF \/ Len(out) < 2
            \/ out[1] = <<>>
            \/ IsGuide(out[1])
            \/ out[2] # Underline(Len(out[1]))
         THEN <<Block(<<>>, <<>>, FALSE, FALSE)>>
         ELSE LET n == GuideRun(out, 3)
              IN  IF Len(out) >= 3 + n /\ out[3 + n] = <<>>
                  THEN <<Block(out[1], SubSeq(out, 3, 2 + n), TRUE, TRUE)>>
                       \o Blocks(SubSeq(out, 4 + n, Len(out)))
                  ELSE <<Block(out[1], SubSeq(out, 3, 2 + n), FALSE, Len(out) = 2 + n)>>

ErrorCount == Cardinality({i \in 1..Len(printed) : printed[i].kind = "error"})

HasError == ErrorCount > 0

HasSummary == \E i \in 1..Len(printed) : printed[i].kind = "summary"

\* the files whose header was written, in the order the loop took them
HeaderStages == {"scan", "closed", "fault_scan"}
WithHeader == SelectSeq(files, LAMBDA f : f.stage \in HeaderStages)

\* the files whose exons were found at line 90
FoundStages == {"found", "scan", "closed", "fault_open", "fault_scan"}
WithExons == SelectSeq(files, LAMBDA f : f.stage \in FoundStages)

\* row is a row of the file the loop is at (or has just left)
RowOfLastFile == files # <<>> /\ Last(files).stage \in HeaderStages /\ row.read # "none"

\* a third field without ':'
NoColon(r) == Len(r) >= CoordIndex /\ \A i \in 1..Len(r[CoordIndex]) : r[CoordIndex][i] # ":"

\* the guide lines of the block of the file the loop is at
LastGuides == Last(Blocks(output)).guides

(***************************************************************************)
(* C1: a file's block holds at most 5 kept rows, in row order, the first 5 *)
(* that qualify; after the fifth no further row is parsed or classified.   *)
(* State part: the block of the file being scanned holds exactly `count`   *)
(* guide lines and never more than 5.  Step part: a row read while fewer   *)
(* than 5 are kept is appended to the end of the output exactly when it    *)
(* qualifies; a row read after the fifth is not parsed and ends the block. *)
(***************************************************************************)
C1_State ==
    (files # <<>> /\ Last(files).stage \in HeaderStages) =>
        /\ count <= 5
        /\ Len(LastGuides) = count

C1_Step ==
    (pc = "scan" /\ nrows' = nrows + 1) =>
        IF count >= 5
        THEN /\ row'.read = "break"
             /\ output' = Append(output, <<>>)
             /\ pc' = "loop"
        ELSE /\ row'.read \in {"empty", "parsed"}
             /\ IF /\ row'.read = "parsed"
                   /\ row'.result.kind = "exon"
                   /\ row'.result.n <= exon_threshold
                THEN /\ output' = Append(output, GuideLine(ParseRow(row'.row).second_cell,
                                                     row'.row, row'.result.n))
                     /\ count' = count + 1
                ELSE /\ output' = output
                     /\ count' = count

C1_FirstFiveKept == [](C1_State) /\ [][C1_Step]_vars

\* five rows kept, a sixth read and left unparsed, the run finished
C1_Witness ==
    /\ pc = "done"
    /\ row.read = "break"
    /\ row.row # <<>>
    /\ Len(LastGuides) = 5
    /\ LastGuides[1] # LastGuides[2]

(***************************************************************************)
(* C2: when the fetch step's locator call returns not_found or an empty    *)
(* list, nothing is written for the file, the loop moves on to the next    *)
(* file, and a run without a fault ends with the completion summary.       *)
(***************************************************************************)
C2_Step ==
    LET fetched == fetch_exon_data(resp')
    IN  (/\ pc = "fetch"
         /\ \/ fetched.kind = "none"
            \/ fetched.kind = "list" /\ fetched.list = <<>>) =>
            /\ output' = output
            /\ pc' = "loop"
            /\ printed' = Append(printed, Message("skip", "", gene_name))
            /\ pbar' = pbar + 1
            /\ Last(files').stage = "no_exons"

C2_State ==
    /\ \A i \in 1..Len(files) :
          files[i].stage = "no_exons" =>
              \A j \in 1..Len(output) : output[j] # SplitExtRoot(files[i].name)
    /\ pc = "done" => (~HasError /\ Last(printed).kind = "summary")
    /\ (pc = "loop" /\ ~HasError) => ENABLED Finish

C2_SkipWritesNothing == [](C2_State) /\ [][C2_Step]_vars

\* a skipped file, another file with its block, and the summary
C2_Witness ==
    /\ pc = "done"
    /\ \E i \in 1..Len(files) : files[i].stage = "no_exons"
    /\ \E i \in 1..Len(files) : files[i].stage = "closed"
    /\ Len(Blocks(output)) = 1

(***************************************************************************)
(* C3 as stated: a coordinate field without ':' in any row read from an    *)
(* input file aborts the run, so the summary is never printed.             *)
(***************************************************************************)
C3_AnyRowAborts ==
    (row.read # "none" /\ NoColon(row.row)) => pc # "done"

(***************************************************************************)
(* C3 amended: a coordinate field without ':' in a row that the scan       *)
(* parses (a non-empty data row read before 5 rows are kept) aborts the    *)
(* run: one error is reported, no summary, the faulting file is the last   *)
(* one taken.                                                              *)
(***************************************************************************)
C3_ParsedRowAborts ==
    (row.read = "parsed" /\ NoColon(row.row)) =>
        /\ pc = "error"
        /\ ErrorCount = 1
        /\ Last(printed) = Message("error", "ValueError", <<>>)
        /\ ~HasSummary
        /\ Last(files).stage = "fault_scan"

\* the run stopped at a malformed row of the second file
C3_Witness ==
    /\ row.read = "parsed"
    /\ NoColon(row.row)
    /\ pc = "error"
    /\ Len(files) = 2
    /\ files[1].stage = "closed"

(***************************************************************************)
(* C4: an answer with an error payload makes the locator return not_found; *)
(* the batch is aborted by a RemoteError only when the answer carries no   *)
(* error payload.                                                          *)
(***************************************************************************)
C4_ErrorPayloadIsNotFound ==
    (pc = "error" /\ Last(printed).exc = "HTTPError") => ~resp.error

(***************************************************************************)
(* C7 as stated: when the run has ended, every file whose exons were found *)
(* has its block in the output, in processing order, each closed by its    *)
(* blank separator.                                                        *)
(***************************************************************************)
C7_EveryHeaderClosed ==
    (pc \in {"done", "error"}) =>
        LET bs == Blocks(output)
        IN  /\ Len(bs) = Len(WithExons)
            /\ \A i \in 1..Len(bs) :
                  /\ bs[i].ok
                  /\ bs[i].closed
                  /\ bs[i].name = SplitExtRoot(WithExons[i].name)

(***************************************************************************)
(* C7 amended: the output is the blocks of the files whose header was      *)
(* written, in processing order: name line, underline of the same length,  *)
(* at most 5 guide lines.  Every block but the last is closed by one blank *)
(* line; the last is closed exactly when its file's scan ended without a   *)
(* fault, with or without kept rows.  A finished run has a closed block    *)
(* for every file whose exons were found.                                  *)
(***************************************************************************)
C7_BlocksInOrder ==
    LET bs == Blocks(output)
    IN  /\ Len(bs) = Len(WithHeader)
        /\ \A i \in 1..Len(bs) :
              /\ bs[i].ok
              /\ bs[i].name = SplitExtRoot(WithHeader[i].name)
              /\ Len(bs[i].guides) <= 5
              /\ bs[i].closed <=> (WithHeader[i].stage = "closed")
              /\ i < Len(bs) => bs[i].closed
        /\ pc = "done" => \A i \in 1..Len(WithExons) : WithExons[i].stage = "closed"

\* a finished run with a closed block without rows and a closed block with rows
C7_Witness ==
    /\ pc = "done"
    /\ Len(Blocks(output)) = 2
    /\ \E i \in 1..2 : Blocks(output)[i].guides = <<>> /\ Blocks(output)[i].closed
    /\ \E i \in 1..2 : Blocks(output)[i].guides # <<>> /\ Blocks(output)[i].closed

(***************************************************************************)
(* C8: a fault stops the batch where it is raised: what was written stays, *)
(* nothing is written afterwards, exactly one error message is printed and *)
(* the summary never is.                                                   *)
(***************************************************************************)
C8_State ==
    /\ ErrorCount <= 1
    /\ HasError <=> pc = "error"
    /\ HasError => (~HasSummary /\ Last(printed).kind = "error")
    /\ \A i \in 1..Len(files) :
          files[i].stage \in {"fault_fetch", "fault_open", "fault_scan"} =>
              (i = Len(files) /\ pc = "error")

C8_Step ==
    /\ (~HasError /\ HasError') => output' = output
    /\ HasError => (output' = output /\ printed' = printed /\ files' = files)
    /\ Len(output) <= Len(output') /\ SubSeq(output', 1, Len(output)) = output

C8_FaultStopsBatch == [](C8_State) /\ [][C8_Step]_vars

\* a fault in the second file, after the block of the first
C8_Witness ==
    /\ pc = "error"
    /\ Len(files) = 2
    /\ files[1].stage = "closed"
    /\ files[2].stage = "fault_scan"
    /\ Len(Blocks(output)) = 2
    /\ Blocks(output)[1].guides # <<>>

(***************************************************************************)
(* C9: a row of the scan is kept exactly when the exon list fetched at the *)
(* fetch step (the list the threshold was computed from) has a first       *)
(* interval containing the row's position with an ordinal <= threshold.    *)
(***************************************************************************)
C9_ClassifiedAgainstFetchedList ==
    (RowOfLastFile /\ row.read = "parsed" /\ row.result.kind # "raise") =>
        LET byList == FirstContaining(exons.list, ParseRow(row.row).position, 1)
            kept == row.result.kind = "exon" /\ row.result.n <= exon_threshold
        IN  /\ kept <=> (byList.kind = "exon" /\ byList.n <= exon_threshold)
            /\ kept => row.result.n = byList.n

(***************************************************************************)
(* C10: the chromosome of a well-formed coordinate field has no influence: *)
(* the same row with any other chromosome before the ':' and the same      *)
(* answer of the service gets the same exon number and the same decision.  *)
(***************************************************************************)
Chromosomes == {<<"c", "h", "r", "1">>, <<"2">>, <<"c", "h", "r", "M", "T">>, <<>>}

\* the row with chromosome c in its coordinate field
WithChromosome(r, c) ==
    [r EXCEPT ![CoordIndex] = c \o <<":">> \o SplitColon(r[CoordIndex])[2]]

C10_ChromosomeIgnored ==
    (RowOfLastFile /\ row.read = "parsed" /\ ParseRow(row.row).exc = "") =>
        \A c \in Chromosomes :
            LET twin == WithChromosome(row.row, c)
                result == RowExon(twin, resp)
            IN  /\ result = row.result
                /\ Keeps(result, exon_threshold) <=> Keeps(row.result, exon_threshold)

\* a kept row whose chromosome is not 1, and one that was dropped
C10_Witness ==
    /\ RowOfLastFile
    /\ row.read = "parsed"
    /\ row.result.kind = "exon"
    /\ row.result.n = 2
    /\ ParseRow(row.row).chromosome = <<"2">>
    /\ count > 0

(***************************************************************************)
(* C5: threshold(n) is the ceiling of n / 2 for n <= 5 and the floor of    *)
(* n / 2 for n > 5.                                                        *)
(***************************************************************************)
C5_Threshold ==
    (call.fn = "calculate_exon_threshold" /\ ret.done) =>
        LET n == call.n
            t == ret.n
        IN  IF n <= 5
            THEN 2 * t >= n /\ 2 * (t - 1) < n
            ELSE 2 * t <= n /\ 2 * (t + 1) > n

\* threshold(5) = 3
C5_Witness ==
    /\ call.fn = "calculate_exon_threshold"
    /\ ret.done
    /\ call.n = 5
    /\ ret.n = 3

(***************************************************************************)
(* C6: classification returns the 1-based position of the first interval   *)
(* in list order with start <= coordinate <= end, and not_found when no    *)
(* interval contains the coordinate or the list is empty.                  *)
(***************************************************************************)
Containing(list, c) == {i \in 1..Len(list) : list[i].start <= c /\ c <= list[i].end}

C6_FirstContainingInterval ==
    (call.fn = "find_exon" /\ ret.done) =>
        LET hits == Containing(call.list, call.coordinate)
        IN  IF hits = {}
            THEN ret.result = NotFound
            ELSE /\ ret.result.kind = "exon"
                 /\ ret.result.n \in hits
                 /\ \A j \in hits : ret.result.n <= j

\* two intervals contain the coordinate, the first of them is not the first of the list
C6_Witness ==
    /\ call.fn = "find_exon"
    /\ ret.done
    /\ Cardinality(Containing(call.list, call.coordinate)) = 2
    /\ ret.result = Found(2)

====
